---- MODULE Spec2Model ----
(***************************************************************************)
(* Model of frontend/src/app/app.component.ts: the AppComponent that shows *)
(* two periodic counters and the result of a user-issued search, and the   *)
(* mock BackendService it talks to.                                        *)
(*                                                                         *)
(* Raw input text is a sequence of one-character strings.  Numbers are     *)
(* records [int, frac] (frac in units of 10^-MaxLen) so that "2.5" and     *)
(* "2.50" denote the same value; NaN is a separate record.                 *)
(***************************************************************************)
EXTENDS Integers, Sequences, FiniteSets, TLC

\* ------------------------------------------------------------------ bounds
\* longest raw input enumerated by ParseSpec
MaxLen == 4
\* cap on the number of BackendService.search invocations in one run
MaxInvocations == 3
\* cap on the number of emissions of each counter observable
MaxEmit == 2

\* characters raw inputs are built from (ParseSpec)
Alphabet == {"0", "2", "5", "a", " ", ",", "-", "."}

\* every raw input of at most MaxLen characters
RawStrings == UNION {[1..n -> Alphabet] : n \in 0..MaxLen}

\* the raw inputs the user types in Spec
Inputs ==
  { <<"a">>, <<"b">>, <<>> }

\* ------------------------------------------------------- JavaScript values
\* an optional member of an object literal: absent, or present with a value
Unset == <<>>

Some(v) == <<v>>

IsSet(o) == o # Unset

\* String.prototype.trim and ToNumber strip white space
WhiteSpace == {" "}

\* the separators of the regular expression /[,-]+/
Separators == {",", "-"}

Digits == {"0", "1", "2", "3", "4", "5", "6", "7", "8", "9"}

DigitVal(c) ==
  CASE c = "0" -> 0 [] c = "1" -> 1 [] c = "2" -> 2 [] c = "3" -> 3
    [] c = "4" -> 4 [] c = "5" -> 5 [] c = "6" -> 6 [] c = "7" -> 7
    [] c = "8" -> 8 [] c = "9" -> 9

\* the result of a failed numeric conversion
NaN == [nan |-> TRUE]

Number(i, f) == [int |-> i, frac |-> f]

Zero == Number(0, 0)

\* JavaScript <= on numbers: false as soon as one side is NaN
LessEq(x, y) ==
  /\ x # NaN
  /\ y # NaN
  /\ \/ x.int < y.int
     \/ x.int = y.int /\ x.frac <= y.frac

\* JavaScript !x for a number x: true for NaN and for zero
Not(x) == x = NaN \/ x = Zero

RECURSIVE TrimStart(_)
TrimStart(s) ==
  IF s # <<>> /\ Head(s) \in WhiteSpace THEN TrimStart(Tail(s)) ELSE s

RECURSIVE TrimEnd(_)
TrimEnd(s) ==
  IF s # <<>> /\ s[Len(s)] \in WhiteSpace
  THEN TrimEnd(SubSeq(s, 1, Len(s) - 1))
  ELSE s

\* String.prototype.trim
Trim(s) == TrimEnd(TrimStart(s))

\* decimal value of a run of digits
RECURSIVE IntValue(_)
IntValue(s) ==
  IF s = <<>> THEN 0
  ELSE 10 * IntValue(SubSeq(s, 1, Len(s) - 1)) + DigitVal(s[Len(s)])

\* value of the digits after the decimal point, in units of 10^-MaxLen
FracValue(s) ==
  IF Len(s) > MaxLen THEN 0
  ELSE IntValue(s) * (10 ^ (MaxLen - Len(s)))

AllDigits(s) == \A i \in 1..Len(s) : s[i] \in Digits

\* positions of the decimal point in s
Dots(s) == {i \in 1..Len(s) : s[i] = "."}

\* StrDecimalLiteral without sign and exponent: digits, digits. , digits.digits, .digits
IsDecimalLiteral(s) ==
  \/ s # <<>> /\ AllDigits(s)
  \/ /\ Cardinality(Dots(s)) = 1
     /\ Len(s) > 1
     /\ LET d == CHOOSE i \in Dots(s) : TRUE
        IN  /\ AllDigits(SubSeq(s, 1, d - 1))
            /\ AllDigits(SubSeq(s, d + 1, Len(s)))

DecimalValue(s) ==
  IF Dots(s) = {} THEN Number(IntValue(s), 0)
  ELSE LET d == CHOOSE i \in Dots(s) : TRUE
       IN  Number(IntValue(SubSeq(s, 1, d - 1)),
                  FracValue(SubSeq(s, d + 1, Len(s))))

\* the unary plus of JavaScript applied to a string (ToNumber)
ToNumber(s) ==
  LET t == Trim(s)
  IN  IF t = <<>> THEN Zero
      ELSE IF IsDecimalLiteral(t) THEN DecimalValue(t)
      ELSE NaN

\* drop the characters of seps that s starts with
RECURSIVE SkipSeparators(_, _)
SkipSeparators(seps, s) ==
  IF s # <<>> /\ Head(s) \in seps THEN SkipSeparators(seps, Tail(s)) ELSE s

\* String.prototype.split on runs of the characters of seps:
\* cur is the piece being read, acc the pieces read so far
RECURSIVE SplitRec(_, _, _, _)
SplitRec(seps, s, cur, acc) ==
  IF s = <<>> THEN Append(acc, cur)
  ELSE IF Head(s) \in seps
       THEN SplitRec(seps, SkipSeparators(seps, s), <<>>, Append(acc, cur))
       ELSE SplitRec(seps, Tail(s), Append(cur, Head(s)), acc)

\* searchTermRaw.split(/[,-]+/)
Split(s) == SplitRec(Separators, s, <<>>, <<>>)

\* searchTermRaw.split(/[,-]+/).filter((element) => element.trim() !== "")
SearchComponents(searchTermRaw) ==
  LET NotBlank(element) == Trim(element) # <<>>
  IN  SelectSeq(Split(searchTermRaw), NotBlank)

\* ------------------------------------------------------------- SearchTerm
EmptyTerm == [txt |-> Unset, min |-> Unset, max |-> Unset]

\* the locals of isValid before the forEach
StartScan ==
  [txtSet |-> FALSE, minSet |-> FALSE, maxSet |-> FALSE, searchterm |-> EmptyTerm]

\* the body of the forEach callback for one identifier
ScanOne(st, identifier) ==
  IF Not(ToNumber(identifier))
  THEN [st EXCEPT !.txtSet = TRUE, !.searchterm.txt = Some(identifier)]
  ELSE LET st1 == IF st.minSet /\ ~st.maxSet
                  THEN [st EXCEPT !.maxSet = TRUE,
                                  !.searchterm.max = Some(ToNumber(identifier))]
                  ELSE st
       IN  IF ~st.minSet
           THEN [st1 EXCEPT !.minSet = TRUE,
                            !.searchterm.min = Some(ToNumber(identifier))]
           ELSE st1

\* searchComponents.forEach(...)
RECURSIVE Scan(_, _)
Scan(st, comps) ==
  IF comps = <<>> THEN st ELSE Scan(ScanOne(st, Head(comps)), Tail(comps))

\* isValid without the min <= max constraint
isValidNoOrder(searchTermRaw) ==
  LET searchComponents == SearchComponents(searchTermRaw)
      st == Scan(StartScan, searchComponents)
  IN  [valid |-> Len(searchComponents) # 0 /\ ~(st.txtSet /\ st.minSet),
       term |-> st.searchterm]

\* AppComponent.isValid: [valid, term] for [isValidQuery, searchterm]
isValid(searchTermRaw) ==
  LET searchComponents == SearchComponents(searchTermRaw)
      nonEmpty == Len(searchComponents) # 0
      st == Scan(StartScan, searchComponents)
      notMixed == nonEmpty /\ ~(st.txtSet /\ st.minSet)
      isValidQuery ==
        IF st.minSet /\ st.maxSet /\ notMixed
        THEN LessEq(ToNumber(searchComponents[1]), ToNumber(searchComponents[2]))
        ELSE notMixed
  IN  [valid |-> isValidQuery, term |-> st.searchterm]

\* ---------------------------------------------------------- program values
\* the "???" the three display fields are initialised with
Unknown == [unknown |-> "???"]

NumVal(n) == [num |-> n]

BoolVal(b) == [bool |-> b]

\* the message search() shows for an invalid input
InvalidMessage == "Your search input is invalid. Please enter a new search term!"

\* the delay TASK 3 allows between a value change and its display, in ms
Window == 200

\* the clock advances in steps of this many ms
TimeStep == 100

\* ------------------------------------------------------------------ state
VARIABLES
  lifecycle,      \* "constructed", "active" (after ngOnInit) or "destroyed"
  inputQuery,     \* AppComponent.inputQuery
  message,        \* AppComponent.message
  viewCount,      \* AppComponent.viewCount
  commentCount,   \* AppComponent.commentCount
  searchResult,   \* AppComponent.searchResult
  detectChanges,  \* AppComponent.detectChanges
  viewX,          \* next value x of interval(700) behind viewCount$
  commentX,       \* next value x of interval(1500) behind commentCount$
  inflight,       \* subscribed BackendService.search requests, oldest first
  invocations,    \* history: number of BackendService.search calls
  failures,       \* history: number of error callbacks run
  resultWrites,   \* history: number of next callbacks run
  attempts,       \* history: the terms the user submitted, in order
  edited,         \* history: inputQuery was changed after a submit
  displayCalls,   \* history: number of display calls
  lastDisplayed,  \* history: the arguments of the latest display call
  lastValidation, \* history: "none", or what the latest run of search() found
                  \* inputQuery to be: "valid" or "invalid"
  sinceChange     \* history: ms Tick counted since the latest change of a
                  \* shown value

vars ==
  << lifecycle, inputQuery, message, viewCount, commentCount, searchResult,
     detectChanges, viewX, commentX, inflight, invocations, failures,
     resultWrites, attempts, edited, displayCalls, lastDisplayed,
     lastValidation, sinceChange >>

\* the three values display is called with
Snapshot == <<viewCount, commentCount, searchResult>>

\* lastDisplayed before the first display call
NoDisplay == <<>>

\* the field initialisers of AppComponent
Init ==
  /\ lifecycle = "constructed"
  /\ inputQuery = <<>>
  /\ message = ""
  /\ viewCount = Unknown
  /\ commentCount = Unknown
  /\ searchResult = Unknown
  /\ detectChanges = FALSE
  /\ viewX = 0
  /\ commentX = 0
  /\ inflight = <<>>
  /\ invocations = 0
  /\ failures = 0
  /\ resultWrites = 0
  /\ attempts = <<>>
  /\ edited = FALSE
  /\ displayCalls = 0
  /\ lastDisplayed = NoDisplay
  /\ lastValidation = "none"
  /\ sinceChange = Unset

\* a shown value changed now
Changed == Some(0)

history == <<invocations, failures, resultWrites, attempts, edited,
             displayCalls, lastDisplayed, lastValidation, sinceChange>>

\* --------------------------------------------------------------- actions
\* ngOnInit subscribes to viewCount$ and commentCount$
ngOnInit ==
  /\ lifecycle = "constructed"
  /\ lifecycle' = "active"
  /\ UNCHANGED << inputQuery, message, viewCount, commentCount, searchResult,
                  detectChanges, viewX, commentX, inflight >>
  /\ UNCHANGED history

\* the subscriber of viewCount$, called with 50 + (x % 2)
ViewCountNext ==
  /\ lifecycle = "active"
  /\ viewX < MaxEmit
  /\ LET data == NumVal(50 + (viewX % 2))
     IN  IF data # viewCount
         THEN /\ detectChanges' = TRUE
              /\ viewCount' = data
              /\ sinceChange' = Changed
         ELSE UNCHANGED <<detectChanges, viewCount, sinceChange>>
  /\ viewX' = viewX + 1
  /\ UNCHANGED << lifecycle, inputQuery, message, commentCount, searchResult,
                  commentX, inflight, invocations, failures, resultWrites,
                  attempts, edited, displayCalls, lastDisplayed,
                  lastValidation >>

\* a subscriber of commentCount$ that stores the value in viewCount
CommentCountNextIntoView ==
  /\ lifecycle = "active"
  /\ commentX < MaxEmit
  /\ LET data == NumVal(1 + commentX)
     IN  IF data # commentCount
         THEN /\ detectChanges' = TRUE
              /\ viewCount' = data
              /\ sinceChange' = Changed
         ELSE UNCHANGED <<detectChanges, viewCount, sinceChange>>
  /\ commentX' = commentX + 1
  /\ UNCHANGED << lifecycle, inputQuery, message, commentCount, searchResult,
                  viewX, inflight, invocations, failures, resultWrites,
                  attempts, edited, displayCalls, lastDisplayed,
                  lastValidation >>

\* the subscriber of commentCount$, called with 1 + x
CommentCountNext ==
  /\ lifecycle = "active"
  /\ commentX < MaxEmit
  /\ LET data == NumVal(1 + commentX)
     IN  IF data # commentCount
         THEN /\ detectChanges' = TRUE
              /\ commentCount' = data
              /\ sinceChange' = Changed
         ELSE UNCHANGED <<detectChanges, commentCount, sinceChange>>
  /\ commentX' = commentX + 1
  /\ UNCHANGED << lifecycle, inputQuery, message, viewCount, searchResult,
                  viewX, inflight, invocations, failures, resultWrites,
                  attempts, edited, displayCalls, lastDisplayed,
                  lastValidation >>

\* the user types q into the search box bound to inputQuery
SetInput(q) ==
  /\ lifecycle = "active"
  /\ q # inputQuery
  /\ inputQuery' = q
  /\ edited' = (edited \/ attempts # <<>>)
  /\ UNCHANGED << lifecycle, message, viewCount, commentCount, searchResult,
                  detectChanges, viewX, commentX, inflight, invocations,
                  failures, resultWrites, attempts, displayCalls,
                  lastDisplayed, lastValidation, sinceChange >>

\* display with the two counts assigned to each other's field
displaySwapped(vc, cc, sr) ==
  /\ searchResult' = sr
  /\ viewCount' = cc
  /\ commentCount' = vc
  /\ displayCalls' = displayCalls + 1
  /\ lastDisplayed' = <<vc, cc, sr>>

\* AppComponent.display
display(vc, cc, sr) ==
  /\ searchResult' = sr
  /\ viewCount' = vc
  /\ commentCount' = cc
  /\ displayCalls' = displayCalls + 1
  /\ lastDisplayed' = <<vc, cc, sr>>

\* a request subscribed by search(): attempt is the submit it descends from,
\* retryOf the term of the failed request whose error callback issued it
Request(term, attempt, retryOf) ==
  [term |-> term, attempt |-> attempt, retryOf |-> retryOf]

\* search that leaves the message as it is when the input is valid
searchKeepMessage(rest, attempt, retryOf) ==
  LET parsed == isValid(inputQuery)
  IN  IF parsed.valid
      THEN /\ inflight' = Append(rest, Request(parsed.term, attempt, retryOf))
           /\ invocations' = invocations + 1
           /\ message' = message
           /\ lastValidation' = "valid"
           /\ display(viewCount, commentCount, searchResult)
      ELSE /\ inflight' = rest
           /\ message' = InvalidMessage
           /\ lastValidation' = "invalid"
           /\ UNCHANGED << invocations, viewCount, commentCount, searchResult,
                           displayCalls, lastDisplayed >>

\* search that skips the backend call when rest already holds the term
searchDedup(rest, attempt, retryOf) ==
  LET parsed == isValid(inputQuery)
      pending == \E i \in 1..Len(rest) : rest[i].term = parsed.term
  IN  IF parsed.valid
      THEN /\ inflight' = IF pending THEN rest
                          ELSE Append(rest, Request(parsed.term, attempt, retryOf))
           /\ invocations' = IF pending THEN invocations ELSE invocations + 1
           /\ message' = ""
           /\ lastValidation' = "valid"
           /\ display(viewCount, commentCount, searchResult)
      ELSE /\ inflight' = rest
           /\ message' = InvalidMessage
           /\ lastValidation' = "invalid"
           /\ UNCHANGED << invocations, viewCount, commentCount, searchResult,
                           displayCalls, lastDisplayed >>

\* search that calls display after the if, for a rejected input too
searchAlwaysDisplay(rest, attempt, retryOf) ==
  LET parsed == isValid(inputQuery)
  IN  /\ IF parsed.valid
         THEN /\ inflight' = Append(rest, Request(parsed.term, attempt, retryOf))
              /\ invocations' = invocations + 1
              /\ message' = ""
              /\ lastValidation' = "valid"
         ELSE /\ inflight' = rest
              /\ message' = InvalidMessage
              /\ lastValidation' = "invalid"
              /\ UNCHANGED invocations
      /\ display(viewCount, commentCount, searchResult)

\* the body of AppComponent.search, run with the requests in rest still
\* subscribed; attempt and retryOf describe the caller
search(rest, attempt, retryOf) ==
  LET parsed == isValid(inputQuery)
  IN  IF parsed.valid
      THEN /\ inflight' = Append(rest, Request(parsed.term, attempt, retryOf))
           /\ invocations' = invocations + 1
           /\ message' = ""
           /\ lastValidation' = "valid"
           /\ display(viewCount, commentCount, searchResult)
      ELSE /\ inflight' = rest
           /\ message' = InvalidMessage
           /\ lastValidation' = "invalid"
           /\ UNCHANGED << invocations, viewCount, commentCount, searchResult,
                           displayCalls, lastDisplayed >>

\* the model stops issuing requests after MaxInvocations of them
MayInvoke == isValid(inputQuery).valid => invocations < MaxInvocations

\* the user clicks the search button
UserSearch ==
  /\ lifecycle = "active"
  /\ MayInvoke
  /\ LET parsed == isValid(inputQuery)
     IN  attempts' = IF parsed.valid THEN Append(attempts, parsed.term)
                     ELSE attempts
  /\ search(inflight, Len(attempts) + 1, Unset)
  /\ UNCHANGED << lifecycle, inputQuery, detectChanges, viewX, commentX,
                  failures, resultWrites, edited, sinceChange >>

\* timer(3000) of the oldest request fires and map returns result: the next
\* callback stores it.  Every request waits the same 3000 ms, so requests
\* answer in the order they were issued.  A request is in inflight exactly
\* while its subscription lasts, which takeUntil(ngUnsubscribe) ends.
SearchNext(result) ==
  /\ inflight # <<>>
  /\ inflight' = Tail(inflight)
  /\ searchResult' = BoolVal(result)
  /\ resultWrites' = resultWrites + 1
  /\ sinceChange' = IF BoolVal(result) # searchResult THEN Changed
                    ELSE sinceChange
  /\ UNCHANGED << lifecycle, inputQuery, message, viewCount, commentCount,
                  detectChanges, viewX, commentX, invocations, failures,
                  attempts, edited, displayCalls, lastDisplayed,
                  lastValidation >>

\* an error callback that leaves the failed request subscribed and calls
\* search() again
SearchErrorKeepFailed ==
  /\ inflight # <<>>
  /\ MayInvoke
  /\ failures' = failures + 1
  /\ search(inflight, Head(inflight).attempt, Some(Head(inflight).term))
  /\ UNCHANGED << lifecycle, inputQuery, detectChanges, viewX, commentX,
                  resultWrites, attempts, edited, sinceChange >>

\* an error callback that only logs the error
SearchErrorNoRetry ==
  /\ inflight # <<>>
  /\ failures' = failures + 1
  /\ inflight' = Tail(inflight)
  /\ UNCHANGED << lifecycle, inputQuery, message, viewCount, commentCount,
                  searchResult, detectChanges, viewX, commentX, invocations,
                  resultWrites, attempts, edited, displayCalls, lastDisplayed,
                  lastValidation, sinceChange >>

\* timer(3000) of the oldest request fires and map throws:
\* the error callback calls search() again
SearchError ==
  /\ inflight # <<>>
  /\ MayInvoke
  /\ failures' = failures + 1
  /\ search(Tail(inflight), Head(inflight).attempt, Some(Head(inflight).term))
  /\ UNCHANGED << lifecycle, inputQuery, detectChanges, viewX, commentX,
                  resultWrites, attempts, edited, sinceChange >>

\* ngOnDestroy with the search subscriptions left out of takeUntil
ngOnDestroyKeepSearch ==
  /\ lifecycle = "active"
  /\ lifecycle' = "destroyed"
  /\ UNCHANGED << inputQuery, message, viewCount, commentCount, searchResult,
                  detectChanges, viewX, commentX, inflight >>
  /\ UNCHANGED history

\* ngOnDestroy: takeUntil(ngUnsubscribe) ends every subscription
ngOnDestroy ==
  /\ lifecycle = "active"
  /\ lifecycle' = "destroyed"
  /\ inflight' = <<>>
  /\ UNCHANGED << inputQuery, message, viewCount, commentCount, searchResult,
                  detectChanges, viewX, commentX >>
  /\ UNCHANGED history

\* TimeStep ms pass without any callback
Tick ==
  /\ lifecycle = "active"
  /\ IsSet(sinceChange)
  /\ sinceChange[1] <= Window
  /\ sinceChange' = Some(sinceChange[1] + TimeStep)
  /\ UNCHANGED << lifecycle, inputQuery, message, viewCount, commentCount,
                  searchResult, detectChanges, viewX, commentX, inflight,
                  invocations, failures, resultWrites, attempts, edited,
                  displayCalls, lastDisplayed, lastValidation >>

Next ==
  \/ ngOnInit
  \/ ViewCountNext
  \/ CommentCountNext
  \/ \E q \in Inputs : SetInput(q)
  \/ UserSearch
  \/ \E result \in BOOLEAN : SearchNext(result)
  \/ SearchError
  \/ ngOnDestroy

Spec == Init /\ [][Next]_vars

\* ------------------------------------------------- the component with a clock
TimedNext ==
  \/ Next
  \/ Tick

TimedSpec == Init /\ [][TimedNext]_vars

\* ------------------------------------- the component with its callbacks due
\* the backend answers the oldest request, with a result or an error
Response ==
  \/ \E result \in BOOLEAN : SearchNext(result)
  \/ SearchError

\* Angular calls ngOnInit, the interval timers fire and every timer(3000)
\* fires; the user and the teardown are under no such obligation
LiveSpec ==
  /\ Init
  /\ [][Next]_vars
  /\ WF_vars(ngOnInit)
  /\ WF_vars(ViewCountNext)
  /\ WF_vars(CommentCountNext)
  /\ WF_vars(Response)

\* ------------------------------------------------- isValid on every input
\* the component with any raw input of at most MaxLen characters typed in
ParseInit ==
  /\ lifecycle = "constructed"
  /\ inputQuery \in RawStrings
  /\ message = ""
  /\ viewCount = Unknown
  /\ commentCount = Unknown
  /\ searchResult = Unknown
  /\ detectChanges = FALSE
  /\ viewX = 0
  /\ commentX = 0
  /\ inflight = <<>>
  /\ invocations = 0
  /\ failures = 0
  /\ resultWrites = 0
  /\ attempts = <<>>
  /\ edited = FALSE
  /\ displayCalls = 0
  /\ lastDisplayed = NoDisplay
  /\ lastValidation = "none"
  /\ sinceChange = Unset

ParseNext ==
  \/ ngOnInit
  \/ UserSearch

ParseSpec == ParseInit /\ [][ParseNext]_vars

\* ================================================================ claims
\* the term isValid returns for the current input
Parsed == isValid(inputQuery)

\* the submit numbered k was followed by a submit of a different term
Superseded(k) ==
  \E j \in (k + 1)..Len(attempts) : attempts[j] # attempts[k]

\* C1: once a different term has been submitted, no response of a request
\* that descends from the earlier submit is stored in searchResult
C1_Supersession ==
  [][resultWrites' # resultWrites => ~Superseded(Head(inflight).attempt)]_vars

\* one valid term was submitted once and the input was left alone since
SingleSubmit == Len(attempts) = 1 /\ ~edited /\ lifecycle = "active"

\* C2: after one submit of an unchanged valid term, the backend has been
\* invoked once more than it failed, and a result is stored exactly once,
\* when the request that succeeds leaves nothing in flight
C2_RetryCount ==
  SingleSubmit =>
    /\ invocations = failures + 1
    /\ resultWrites = (IF inflight = <<>> THEN 1 ELSE 0)

\* two failures, then the success
C2_Witness ==
  SingleSubmit /\ failures = 2 /\ resultWrites = 1 /\ inflight = <<>>

\* C3: every request issued by an error callback carries the term of the
\* request that failed
C3_RetrySameTerm ==
  \A i \in 1..Len(inflight) :
    IsSet(inflight[i].retryOf) => inflight[i].term = inflight[i].retryOf[1]

\* the user submits the term of the latest submit again while a request of
\* that submit is still in flight
ResubmitPending ==
  /\ attempts' # attempts
  /\ attempts # <<>>
  /\ attempts[Len(attempts)] = Parsed.term
  /\ \E i \in 1..Len(inflight) : inflight[i].attempt = Len(attempts)

\* C4 as stated: submitting the pending term again issues no further request
C4_IdempotentSubmit ==
  [][ResubmitPending => Len(inflight') = Len(inflight)]_vars

\* C4 amended: submitting the pending term again issues one more request
C4_ResubmitIssues ==
  [][ResubmitPending =>
       /\ Len(inflight') = Len(inflight) + 1
       /\ invocations' = invocations + 1]_vars

\* two requests of two submits of the same term are in flight together
C4_Witness ==
  \E i, j \in 1..Len(inflight) :
    /\ inflight[i].attempt < inflight[j].attempt
    /\ attempts[inflight[i].attempt] = attempts[inflight[j].attempt]
    /\ inflight[i].term = inflight[j].term

\* C5: display is never called with the three values of the previous call
C5_Suppression ==
  [][displayCalls' # displayCalls => lastDisplayed' # lastDisplayed]_vars

\* C6: once the latest change is more than the window old, display has been
\* called with the current values
C6_Debounce ==
  (IsSet(sinceChange) /\ sinceChange[1] > Window) => lastDisplayed = Snapshot

\* a fragment that parses fully as a number
IsNumeric(f) == IsDecimalLiteral(f)

\* the three ways of separating the bounds of a range
RangeSeparators == { <<"-">>, <<" ">>, <<",", " ">> }

\* search() has run on the current input
Searched == invocations > 0 \/ message # ""

\* C7: a number, a range separator and a number not below the first are
\* accepted as the range of the two numbers, which search() sends on
C7_RangeSeparators ==
  \A i \in 1..Len(inputQuery) : \A j \in i..Len(inputQuery) :
    LET a == SubSeq(inputQuery, 1, i)
        sep == SubSeq(inputQuery, i + 1, j)
        b == SubSeq(inputQuery, j + 1, Len(inputQuery))
    IN  ( /\ Searched
          /\ IsNumeric(a)
          /\ IsNumeric(b)
          /\ sep \in RangeSeparators
          /\ LessEq(DecimalValue(a), DecimalValue(b)) )
        => /\ Parsed = [valid |-> TRUE,
                        term |-> [txt |-> Unset,
                                  min |-> Some(DecimalValue(a)),
                                  max |-> Some(DecimalValue(b))]]
           /\ inflight # <<>>
           /\ inflight[Len(inflight)].term = Parsed.term

\* the fragments of section 4.1: split on commas, dashes and white space
Fragments(raw) ==
  SelectSeq(SplitRec(Separators \cup WhiteSpace, raw, <<>>, <<>>),
            LAMBDA f : f # <<>>)

\* raw has a textual and a numeric fragment
Mixed(raw) ==
  LET fs == Fragments(raw)
  IN  /\ \E i \in 1..Len(fs) : IsNumeric(fs[i])
      /\ \E i \in 1..Len(fs) : ~IsNumeric(fs[i])

\* C8: an input with a textual and a numeric fragment is rejected: search()
\* answers it with the message and sends nothing to the backend
C8_MixedRejected ==
  (Mixed(inputQuery) /\ Searched) =>
    /\ ~Parsed.valid
    /\ message = InvalidMessage
    /\ invocations = 0

\* exactly one case populated, txt non-empty, min <= max
WellFormed(t) ==
  /\ \/ IsSet(t.txt) /\ ~IsSet(t.min) /\ ~IsSet(t.max) /\ t.txt[1] # <<>>
     \/ ~IsSet(t.txt) /\ (IsSet(t.min) \/ IsSet(t.max))
  /\ (IsSet(t.min) /\ IsSet(t.max)) => LessEq(t.min[1], t.max[1])

\* C9: the term of an accepted input, and every term sent to the backend,
\* is well-formed
C9_WellFormed ==
  /\ Parsed.valid => WellFormed(Parsed.term)
  /\ \A i \in 1..Len(inflight) : WellFormed(inflight[i].term)

\* a range with both bounds was sent to the backend
C9_Witness ==
  \E i \in 1..Len(inflight) :
    IsSet(inflight[i].term.min) /\ IsSet(inflight[i].term.max)

\* a step in which search() ran observably: a submit of a valid input, an
\* error callback, or any change of the message
SearchRan ==
  attempts' # attempts \/ failures' # failures \/ message' # message

C11_Teardown ==
  [][lifecycle' = "destroyed" =>
       /\ inflight' = <<>>
       /\ lifecycle = "destroyed" =>
            UNCHANGED << viewCount, commentCount, searchResult, message,
                         displayCalls, invocations, viewX, commentX >>]_vars

\* torn down after a counter emitted, with a request still unanswered
C11_Witness ==
  /\ lifecycle = "destroyed"
  /\ viewX > 0
  /\ invocations > failures + resultWrites

\* search() accepted the current input and sent term to the backend
SentAs(term) ==
  /\ Parsed = [valid |-> TRUE, term |-> term]
  /\ inflight # <<>>
  /\ inflight[Len(inflight)].term = term

\* the term with only a lower bound
MinOnly(lo) == [txt |-> Unset, min |-> Some(lo), max |-> Unset]

\* the term with both bounds
Range(lo, hi) == [txt |-> Unset, min |-> Some(lo), max |-> Some(hi)]

\* C12: a fragment that parses fully as a number, zero included, counts as
\* a number: alone it is sent as a range with that lower bound, and two of
\* them in order, separated by a dash, are sent as the range of the two
C12_NumericClassification ==
  Searched =>
    /\ IsNumeric(inputQuery) => SentAs(MinOnly(DecimalValue(inputQuery)))
    /\ \A i \in 1..Len(inputQuery) :
         LET a == SubSeq(inputQuery, 1, i - 1)
             b == SubSeq(inputQuery, i + 1, Len(inputQuery))
         IN  ( /\ inputQuery[i] = "-"
               /\ IsNumeric(a)
               /\ IsNumeric(b)
               /\ LessEq(DecimalValue(a), DecimalValue(b)) )
             => SentAs(Range(DecimalValue(a), DecimalValue(b)))

\* raw has at least two fragments, none of them numeric
MultipleText(raw) ==
  LET fs == Fragments(raw)
  IN  /\ Len(fs) > 1
      /\ \A i \in 1..Len(fs) : ~IsNumeric(fs[i])

\* search() sent the current input to the backend as a text term
SentAsText ==
  /\ Parsed.valid
  /\ IsSet(Parsed.term.txt)
  /\ inflight # <<>>
  /\ IsSet(inflight[Len(inflight)].term.txt)

\* C13: an input of several textual fragments is rejected, and an input is
\* sent as a text term only if it has exactly one fragment (whether that
\* fragment counts as textual is the subject of C12)
C13_MultipleText ==
  Searched =>
    /\ MultipleText(inputQuery) =>
         ~Parsed.valid /\ message = InvalidMessage /\ invocations = 0
    /\ SentAsText => Len(Fragments(inputQuery)) = 1

\* C14: unless the component is torn down, from some point on every value
\* that has changed is on display: once the changes stop, display has been
\* called with the latest values
C14_EventuallyRendered ==
  <>[](\/ lifecycle = "destroyed"
       \/ ~IsSet(sinceChange)
       \/ lastDisplayed = Snapshot)

\* C15: a step in which an error callback runs changes neither the message
\* nor searchResult
C15_FailureInvisible ==
  [][failures' # failures =>
       message' = message /\ searchResult' = searchResult]_vars

\* C16: the three fields start as the "???" sentinel, which is no number and
\* no boolean, and each field still holds it as long as its own source has
\* not emitted: no counter emission for a count, no response for searchResult
C16_UnknownSentinel ==
  /\ \A n \in 0..(50 + MaxEmit) : Unknown # NumVal(n)
  /\ \A b \in BOOLEAN : Unknown # BoolVal(b)
  /\ viewX = 0 => viewCount = Unknown
  /\ commentX = 0 => commentCount = Unknown
  /\ resultWrites = 0 => searchResult = Unknown

\* display ran after a view count arrived, while no comment count and no
\* search result had
C16_Witness ==
  /\ displayCalls > 0
  /\ lastDisplayed = <<NumVal(50), Unknown, Unknown>>
  /\ viewCount = NumVal(50)
  /\ commentCount = Unknown
  /\ searchResult = Unknown
  /\ failures > 0

\* every component of raw that isValid scans is a number
AllNumeric(raw) ==
  LET cs == SearchComponents(raw)
  IN  /\ cs # <<>>
      /\ \A i \in 1..Len(cs) : IsNumeric(Trim(cs[i]))

\* C17: when every fragment is a number, min is the first, max the second if
\* there is one and unset otherwise, and the input is accepted exactly when
\* there is one fragment or first <= second, whatever fragments follow
C17_NumericOrder ==
  (Searched /\ AllNumeric(inputQuery)) =>
    LET cs == SearchComponents(inputQuery)
        first == DecimalValue(Trim(cs[1]))
        second == IF Len(cs) > 1 THEN Some(DecimalValue(Trim(cs[2]))) ELSE Unset
        accepted == IsSet(second) => LessEq(first, second[1])
    IN  /\ Parsed.term.min = Some(first)
        /\ Parsed.term.max = second
        /\ Parsed.valid <=> accepted
        /\ IF accepted
           THEN inflight # <<>> /\ inflight[Len(inflight)].term = Parsed.term
           ELSE message = InvalidMessage /\ invocations = 0

\* C18: never more requests in flight than valid searches of the user; an
\* error callback leaves at most as many requests in flight as there were
\* and calls the backend at most once, a next callback never calls it
C18_RetriesDoNotMultiply ==
  [][/\ Len(inflight') <= Len(attempts')
     /\ failures' # failures =>
          /\ Len(inflight') <= Len(inflight)
          /\ invocations' <= invocations + 1
     /\ resultWrites' # resultWrites =>
          /\ Len(inflight') = Len(inflight) - 1
          /\ invocations' = invocations]_vars

\* two valid searches of the user, one failure since, and two requests in
\* flight
C18_Witness ==
  /\ Len(attempts) = 2
  /\ failures > 0
  /\ invocations = 3
  /\ Len(inflight) = 2

\* C19: a step of the viewCount$ subscriber changes nothing but viewCount
\* and detectChanges, a step of the commentCount$ subscriber nothing but
\* commentCount and detectChanges, and neither changes anything when the
\* value emitted is the one stored
C19_EmissionFrame ==
  [][/\ viewX' # viewX =>
          /\ UNCHANGED << lifecycle, inputQuery, message, commentCount,
                          searchResult, commentX, inflight, invocations,
                          displayCalls, lastDisplayed >>
          /\ viewCount = NumVal(50 + (viewX % 2)) =>
               UNCHANGED << viewCount, detectChanges >>
     /\ commentX' # commentX =>
          /\ UNCHANGED << lifecycle, inputQuery, message, viewCount,
                          searchResult, viewX, inflight, invocations,
                          displayCalls, lastDisplayed >>
          /\ commentCount = NumVal(1 + commentX) =>
               UNCHANGED << commentCount, detectChanges >>]_vars

\* both counters have emitted while a request was in flight and a result
\* was stored
C19_Witness ==
  /\ viewX = 2
  /\ viewCount = NumVal(51)
  /\ commentX = 1
  /\ commentCount = NumVal(1)
  /\ detectChanges
  /\ inflight # <<>>
  /\ searchResult = BoolVal(TRUE)
  /\ message = InvalidMessage

\* C20: the message is empty exactly when search() has not run yet or its
\* latest run, from a click or from an error callback, found inputQuery
\* valid; otherwise it is the rejection text
C20_MessageTracksValidation ==
  /\ message = "" <=> lastValidation \in {"none", "valid"}
  /\ message # "" => message = InvalidMessage
  /\ lastValidation = "none" <=> (invocations = 0 /\ message = "")

\* the only request failed and its error callback ran search() on an input
\* edited to an invalid one: nothing was sent again and the message is set
C20_Witness ==
  /\ failures = 1
  /\ invocations = 1
  /\ resultWrites = 0
  /\ inflight = <<>>
  /\ lifecycle = "active"
  /\ lastValidation = "invalid"
  /\ message = InvalidMessage

====
